---- MODULE Spec2Model ----
(***************************************************************************)
(* A model of p.py: get_wa_counties (the boundary loader) and              *)
(* create_wa_minimum_wage_map (wage join, styling, rendering, save).       *)
(*                                                                         *)
(* Python values are modelled as follows.                                  *)
(*   - a dict is a TLA+ function with a domain of strings (a record); a    *)
(*     key that is absent is absent from the DOMAIN, so d[k] on a missing  *)
(*     key is the KeyError the code would raise;                           *)
(*   - a list is a sequence;                                               *)
(*   - the wage floats 23.70, 30.09, 26.54 are integers in hundredths      *)
(*     (2370, 3009, 2654); equality of floats is equality of hundredths;   *)
(*   - an exception is a record [type, args].                              *)
(* The feature's geometry is stood for by "id", the position the feature   *)
(* has in the fetched document.                                            *)
(***************************************************************************)
EXTENDS Integers, Sequences, FiniteSets, TLC

(***************************************************************************)
(* Bounds of the model.                                                    *)
(***************************************************************************)
MaxFeatures == 3      \* features in the fetched document
MaxRuns == 2          \* invocations of the script against the same document
NumIds == 2           \* distinct element identifiers the map library can draw
RateLo == 2300        \* lowest rate (hundredths) tried on style_function
RateHi == 3100        \* highest rate (hundredths) tried on style_function

(***************************************************************************)
(* Program constants.                                                      *)
(***************************************************************************)
OkStatus == 200
DefaultRate == 2370
KingRate == 3009
WhatcomRate == 2654

TargetState == "53"
Unknown == "Unknown"
CountySuffix == " County"
WageSuffix == " Canadian Dollars an hour"
WhatcomNote == " starting May 1st"
output_file == "washington_minimum_wage_cad_map.html"
\* A variant whose message carries a status.
FetchFailedMsgWithStatus == "Failed to fetch county data from API: 404"
FetchFailedMsg == "Failed to fetch county data from API"

county_names ==
    ("53001" :> "Adams") @@ ("53003" :> "Asotin") @@ ("53005" :> "Benton") @@
    ("53007" :> "Chelan") @@ ("53009" :> "Clallam") @@ ("53011" :> "Clark") @@
    ("53013" :> "Columbia") @@ ("53015" :> "Cowlitz") @@ ("53017" :> "Douglas") @@
    ("53019" :> "Ferry") @@ ("53021" :> "Franklin") @@ ("53023" :> "Garfield") @@
    ("53025" :> "Grant") @@ ("53027" :> "Grays Harbor") @@ ("53029" :> "Island") @@
    ("53031" :> "Jefferson") @@ ("53033" :> "King") @@ ("53035" :> "Kitsap") @@
    ("53037" :> "Kittitas") @@ ("53039" :> "Klickitat") @@ ("53041" :> "Lewis") @@
    ("53043" :> "Lincoln") @@ ("53045" :> "Mason") @@ ("53047" :> "Okanogan") @@
    ("53049" :> "Pacific") @@ ("53051" :> "Pend Oreille") @@ ("53053" :> "Pierce") @@
    ("53055" :> "San Juan") @@ ("53057" :> "Skagit") @@ ("53059" :> "Skamania") @@
    ("53061" :> "Snohomish") @@ ("53063" :> "Spokane") @@ ("53065" :> "Stevens") @@
    ("53067" :> "Thurston") @@ ("53069" :> "Wahkiakum") @@ ("53071" :> "Walla Walla") @@
    ("53073" :> "Whatcom") @@ ("53075" :> "Whitman") @@ ("53077" :> "Yakima")

(***************************************************************************)
(* The environment: what the remote source can answer.                     *)
(***************************************************************************)
\* The properties a feature of the upstream document can carry.  The last
\* one has no COUNTY key.
FeatureKinds ==
    { [STATE |-> "53", COUNTY |-> "033", NAME |-> "King"],
      [STATE |-> "53", COUNTY |-> "073", NAME |-> "Whatcom"],
      [STATE |-> "53", COUNTY |-> "001", NAME |-> "Adams"],
      [STATE |-> "53", COUNTY |-> "077", NAME |-> "King"],
      [STATE |-> "53", COUNTY |-> "999", NAME |-> "Whatcom"],
      [STATE |-> "48", COUNTY |-> "269", NAME |-> "King"],
      [STATE |-> "06", COUNTY |-> "073", NAME |-> "San Diego"],
      [STATE |-> "53", NAME |-> "Adams"] }

Statuses == {200, 404, 503}

\* A feature of the document: its properties, and id (its geometry).
WithId(props, i) == ("id" :> i) @@ props

Documents ==
    { [valid |-> FALSE, features |-> <<>>] } \cup
    UNION { { [valid |-> TRUE, features |-> [i \in 1..n |-> WithId(ks[i], i)]] :
                ks \in [1..n -> FeatureKinds] } : n \in 0..MaxFeatures }

(***************************************************************************)
(* Exceptions.                                                             *)
(***************************************************************************)
NoExc == [type |-> "", args |-> <<>>]
Exc(t, a) == [type |-> t, args |-> <<a>>]

(***************************************************************************)
(* Pure helpers of get_wa_counties.                                        *)
(***************************************************************************)
\* A variant that raises no default but hands back the key.
county_names_get_key(key, default) ==
    IF key \in DOMAIN county_names THEN county_names[key] ELSE key

\* dict.get(key, default)
county_names_get(key, default) ==
    IF key \in DOMAIN county_names THEN county_names[key] ELSE default

\* A variant that collects the selected features in reverse.
RECURSIVE wa_counties_features_reversed(_)
wa_counties_features_reversed(features) ==
    IF features = <<>> THEN <<>>
    ELSE LET f == Head(features)
             rest == wa_counties_features_reversed(Tail(features))
         IN  IF f.STATE = TargetState THEN rest \o <<f>> ELSE rest

\* [f for f in all_counties["features"] if f["properties"]["STATE"] == "53"]
RECURSIVE wa_counties_features(_)
wa_counties_features(features) ==
    IF features = <<>> THEN <<>>
    ELSE LET f == Head(features)
             rest == wa_counties_features(Tail(features))
         IN  IF f.STATE = TargetState THEN <<f>> \o rest ELSE rest

\* full_fips = state_fips + fips
full_fips(feature) == feature.STATE \o feature.COUNTY

\* A variant that keeps a NAME the document already has (setdefault).
enrich_feature_keep(feature) ==
    feature @@
    ("NAME" :> county_names_get(feature.STATE \o feature.COUNTY, Unknown)) @@
    ("NAMELSAD" :> (county_names_get(feature.STATE \o feature.COUNTY, Unknown) \o CountySuffix))

\* The body of the enrichment loop: NAME and NAMELSAD are written into the
\* feature's properties, replacing what the document had under those keys.
enrich_feature(feature) ==
    ("NAME" :> county_names_get(full_fips(feature), Unknown)) @@
    ("NAMELSAD" :> (county_names_get(full_fips(feature), Unknown) \o CountySuffix)) @@
    feature

\* The first feature whose properties have no COUNTY key (0 when none):
\* feature["properties"]["COUNTY"] raises KeyError there and the loop stops.
FirstKeyError(features) ==
    LET bad == { i \in 1..Len(features) : "COUNTY" \notin DOMAIN features[i] }
    IN  IF bad = {} THEN 0 ELSE CHOOSE i \in bad : \A j \in bad : i <= j

\* The loop "for feature in wa_counties_geojson['features']": the features
\* before the first KeyError are enriched in place, the others are untouched.
enrich_loop(features) ==
    LET bad == FirstKeyError(features)
    IN  [i \in 1..Len(features) |->
            IF bad = 0 \/ i < bad THEN enrich_feature(features[i]) ELSE features[i]]

(***************************************************************************)
(* Pure helpers of create_wa_minimum_wage_map.                             *)
(***************************************************************************)
\* Series.astype(str) on a float64 column: the shortest text that reads back
\* as the float, so 23.70 is "23.7" and 30.09 is "30.09".  r is in hundredths.
astype_str(r) ==
    LET whole == r \div 100
        frac == r % 100
    IN  ToString(whole) \o "." \o
        (IF frac % 10 = 0 THEN ToString(frac \div 10)
         ELSE IF frac < 10 THEN "0" \o ToString(frac)
         ELSE ToString(frac))

\* A variant with the default assigned last, over the overrides.
min_wage_numeric_default_last(gdf) ==
    [i \in 1..Len(gdf) |-> DefaultRate]

\* counties_gdf['min_wage_numeric'] = 23.70, then the two .loc overrides,
\* applied in the order of the code.
min_wage_numeric(gdf) ==
    LET col0 == [i \in 1..Len(gdf) |-> DefaultRate]
        col1 == [i \in 1..Len(gdf) |-> IF gdf[i].NAME = "King" THEN KingRate ELSE col0[i]]
        col2 == [i \in 1..Len(gdf) |-> IF gdf[i].NAME = "Whatcom" THEN WhatcomRate ELSE col1[i]]
    IN  col2

\* A variant that appends the note to every overridden row.
min_wage_cad_note_all(gdf, numeric) ==
    [i \in 1..Len(gdf) |->
        IF gdf[i].NAME \in {"King", "Whatcom"}
        THEN astype_str(numeric[i]) \o WageSuffix \o WhatcomNote
        ELSE astype_str(numeric[i]) \o WageSuffix]

\* counties_gdf['min_wage_cad'] = astype(str) + text, then the Whatcom note.
min_wage_cad(gdf, numeric) ==
    LET txt0 == [i \in 1..Len(gdf) |-> astype_str(numeric[i]) \o WageSuffix]
        txt1 == [i \in 1..Len(gdf) |->
                    IF gdf[i].NAME = "Whatcom" THEN txt0[i] \o WhatcomNote ELSE txt0[i]]
    IN  txt1

\* The wage join: both columns added to every row.
wage_join(gdf) ==
    LET numeric == min_wage_numeric(gdf)
        cad == min_wage_cad(gdf, numeric)
    IN  [i \in 1..Len(gdf) |->
            ("min_wage_numeric" :> numeric[i]) @@ ("min_wage_cad" :> cad[i]) @@ gdf[i]]

StyleOf(fill) ==
    [fillColor |-> fill, color |-> "#000000", weight |-> 1, fillOpacity |-> "0.7"]

\* A variant that compares by range.
style_function_by_range(feature) ==
    LET wage == feature.properties.min_wage_numeric
    IN  IF wage >= KingRate THEN StyleOf("#ffd700")
        ELSE IF wage >= WhatcomRate THEN StyleOf("#f5c855")
        ELSE StyleOf("#ffeeba")

style_function(feature) ==
    LET wage == feature.properties.min_wage_numeric
    IN  IF wage = KingRate THEN StyleOf("#ffd700")
        ELSE IF wage = WhatcomRate THEN StyleOf("#f5c855")
        ELSE StyleOf("#ffeeba")

\* counties_gdf.__geo_interface__: one feature per row, in row order, the
\* row's columns as its properties.
geo_interface(gdf) == [i \in 1..Len(gdf) |-> [properties |-> gdf[i]]]

tooltip == [fields |-> <<"NAME", "min_wage_cad">>,
            aliases |-> <<"County: ", "Minimum Wage: ">>]

legend_html ==
    << [swatch |-> "#ffd700", text |-> "King County: 30.09"],
       [swatch |-> "#f5c855", text |-> "Whatcom County: 26.54 (starting May 1st)"],
       [swatch |-> "#ffeeba", text |-> "All other counties: 23.70"] >>

title_html == "Minimum Wage by County in Washington State (CAD)"

\* The GeoJson layer as rendered: every feature with the style the style
\* function gives it and the tooltip's two fields.
geojson_layer(gdf) ==
    LET fs == geo_interface(gdf)
    IN  [i \in 1..Len(fs) |->
            [properties |-> fs[i].properties,
             style |-> style_function(fs[i]),
             tooltip |-> << fs[i].properties.NAME, fs[i].properties.min_wage_cad >>]]

NoMap == [id |-> 0, layer |-> <<>>, legend |-> <<>>, title |-> ""]
NoFile == [exists |-> FALSE, content |-> NoMap]

ConfirmLine == "Interactive map has been saved as '" \o output_file \o "'"
StatusLine(status) == "API request failed with status code: " \o ToString(status)
ErrorLine(e) == "Error getting county data: " \o e.args[1]

(***************************************************************************)
(* State.                                                                  *)
(***************************************************************************)
VARIABLES
    doc,            \* the document the remote source serves (fixed over the runs)
    run,            \* which invocation of the script this is
    pc,             \* where the invocation is
    status_code,    \* response.status_code (0: no response yet)
    all_counties,   \* all_counties["features"]
    wa_features,    \* wa_counties_geojson["features"]
    e,              \* the exception raised inside the try block of get_wa_counties
    uncaught,       \* the exception that leaves create_wa_minimum_wage_map
    counties_gdf,   \* the rows of counties_gdf
    m,              \* the folium map being composed
    file,           \* the output file on disk
    fileAtStart,    \* the output file as this invocation found it
    console,        \* the lines printed by this invocation
    retval,         \* what create_wa_minimum_wage_map returned ("" before)
    fetches,        \* calls of requests.get by this invocation
    writes,         \* calls of m.save by this invocation
    trace           \* the steps this invocation has taken, in order

vars == << doc, run, pc, status_code, all_counties, wa_features, e, uncaught,
           counties_gdf, m, file, fileAtStart, console, retval, fetches, writes,
           trace >>

Terminal == {"done", "failed", "crashed"}

Init ==
    /\ doc \in Documents
    /\ run = 1
    /\ file = NoFile
    /\ fileAtStart = NoFile
    /\ pc = "start"
    /\ status_code = 0
    /\ all_counties = <<>>
    /\ wa_features = <<>>
    /\ e = NoExc
    /\ uncaught = NoExc
    /\ counties_gdf = <<>>
    /\ m = NoMap
    /\ console = <<>>
    /\ retval = ""
    /\ fetches = 0
    /\ writes = 0
    /\ trace = <<>>

(***************************************************************************)
(* get_wa_counties.                                                        *)
(***************************************************************************)
\* response = requests.get(api_url): an answer with some status, or an
\* exception of the transport.
Fetch ==
    /\ pc = "start"
    /\ fetches' = fetches + 1
    /\ trace' = Append(trace, "fetch")
    /\ \/ \E s \in Statuses :
            /\ status_code' = s
            /\ pc' = "fetched"
            /\ e' = e
       \/ /\ e' = Exc("ConnectionError", "connection failed")
          /\ pc' = "raised"
          /\ status_code' = status_code
    /\ UNCHANGED << doc, run, all_counties, wa_features, uncaught, counties_gdf,
                    m, file, fileAtStart, console, retval, writes >>

\* if response.status_code == 200: all_counties = response.json()
\* else: print the status, raise Exception("Failed to fetch ...")
Response ==
    /\ pc = "fetched"
    /\ \/ /\ status_code = OkStatus
          /\ doc.valid
          /\ all_counties' = doc.features
          /\ pc' = "parsed"
          /\ UNCHANGED << e, console >>
       \/ /\ status_code = OkStatus
          /\ ~doc.valid
          /\ e' = Exc("JSONDecodeError", "Expecting value")
          /\ pc' = "raised"
          /\ UNCHANGED << all_counties, console >>
       \/ /\ status_code # OkStatus
          /\ console' = Append(console, StatusLine(status_code))
          /\ e' = Exc("Exception", FetchFailedMsg)
          /\ pc' = "raised"
          /\ UNCHANGED all_counties
    /\ UNCHANGED << doc, run, status_code, wa_features, uncaught, counties_gdf, m,
                    file, fileAtStart, retval, fetches, writes, trace >>

\* wa_counties_geojson = {..., "features": [f for f in ... if STATE == "53"]}
Filter ==
    /\ pc = "parsed"
    /\ wa_features' = wa_counties_features(all_counties)
    /\ trace' = Append(trace, "filter")
    /\ pc' = "filtered"
    /\ UNCHANGED << doc, run, status_code, all_counties, e, uncaught, counties_gdf,
                    m, file, fileAtStart, console, retval, fetches, writes >>

\* for feature in wa_counties_geojson["features"]: ... NAME, NAMELSAD
Enrich ==
    /\ pc = "filtered"
    /\ wa_features' = enrich_loop(wa_features)
    /\ trace' = Append(trace, "enrich")
    /\ \/ /\ FirstKeyError(wa_features) = 0
          /\ pc' = "enriched"
          /\ e' = e
       \/ /\ FirstKeyError(wa_features) # 0
          /\ e' = Exc("KeyError", "'COUNTY'")
          /\ pc' = "raised"
    /\ UNCHANGED << doc, run, status_code, all_counties, uncaught, counties_gdf, m,
                    file, fileAtStart, console, retval, fetches, writes >>

\* gdf = gpd.GeoDataFrame.from_features(wa_counties_geojson, crs=...); return gdf
\* One row per feature, in order, the properties as columns.  Of an empty
\* feature list geopandas makes a frame with no columns, or (for it cannot
\* assign the crs to a frame with no geometry column) raises ValueError,
\* depending on its version.
ToGeoDataFrame ==
    /\ pc = "enriched"
    /\ \/ /\ counties_gdf' = wa_features
          /\ pc' = "loaded"
          /\ e' = e
       \/ /\ wa_features = <<>>
          /\ e' = Exc("ValueError", "Assigning CRS to a GeoDataFrame without a geometry column")
          /\ pc' = "raised"
          /\ counties_gdf' = counties_gdf
    /\ UNCHANGED << doc, run, status_code, all_counties, wa_features, uncaught, m,
                    file, fileAtStart, console, retval, fetches, writes, trace >>

\* A variant that raises a new exception in place of the one it caught.
ExceptHandlerWrapping ==
    /\ pc = "raised"
    /\ console' = Append(console, ErrorLine(e))
    /\ uncaught' = Exc("RuntimeError", "could not load county data")
    /\ pc' = "failed"
    /\ UNCHANGED << doc, run, status_code, all_counties, wa_features, e,
                    counties_gdf, m, file, fileAtStart, retval, fetches, writes,
                    trace >>

\* A variant that fetches a second time before it gives up.
ExceptHandlerRetrying ==
    /\ pc = "raised"
    /\ console' = Append(console, ErrorLine(e))
    /\ \/ /\ fetches < 2
          /\ pc' = "start"
          /\ trace' = <<>>
          /\ uncaught' = uncaught
       \/ /\ fetches >= 2
          /\ pc' = "failed"
          /\ trace' = trace
          /\ uncaught' = e
    /\ UNCHANGED << doc, run, status_code, all_counties, wa_features, e,
                    counties_gdf, m, file, fileAtStart, retval, fetches, writes >>

\* except Exception as e: print(f"Error getting county data: {e}"); raise
\* Nothing in create_wa_minimum_wage_map catches it.
ExceptHandler ==
    /\ pc = "raised"
    /\ console' = Append(console, ErrorLine(e))
    /\ uncaught' = e
    /\ pc' = "failed"
    /\ UNCHANGED << doc, run, status_code, all_counties, wa_features, e,
                    counties_gdf, m, file, fileAtStart, retval, fetches, writes,
                    trace >>

(***************************************************************************)
(* create_wa_minimum_wage_map, after the loader has returned.              *)
(***************************************************************************)
\* The two wage columns.  A frame with no rows has no NAME column, and
\* counties_gdf['NAME'] raises KeyError, which nothing catches.
WageJoin ==
    /\ pc = "loaded"
    /\ trace' = Append(trace, "join")
    /\ \/ /\ counties_gdf # <<>>
          /\ counties_gdf' = wage_join(counties_gdf)
          /\ pc' = "joined"
          /\ uncaught' = uncaught
       \/ /\ counties_gdf = <<>>
          /\ uncaught' = Exc("KeyError", "'NAME'")
          /\ pc' = "crashed"
          /\ counties_gdf' = counties_gdf
    /\ UNCHANGED << doc, run, status_code, all_counties, wa_features, e, m, file,
                    fileAtStart, console, retval, fetches, writes >>

\* m = folium.Map(...); folium.GeoJson(...).add_to(m); legend; title.
\* The map library names every element it creates with an identifier it
\* draws afresh (branca's Element._id, a random hex string), and writes the
\* name into the page.
Render ==
    /\ pc = "joined"
    /\ \E id \in 1..NumIds :
          m' = [id |-> id,
                layer |-> geojson_layer(counties_gdf),
                legend |-> legend_html,
                title |-> title_html]
    /\ pc' = "rendered"
    /\ UNCHANGED << doc, run, status_code, all_counties, wa_features, e, uncaught,
                    counties_gdf, file, fileAtStart, console, retval, fetches,
                    writes, trace >>

\* A variant that opens the file for appending.
SavedAppending(old, map) ==
    [exists |-> TRUE,
     content |-> [map EXCEPT !.layer = old.content.layer \o map.layer]]

\* m.save(output_file): the file is created, or overwritten.
Saved(old, map) == [exists |-> TRUE, content |-> map]

Save ==
    /\ pc = "rendered"
    /\ file' = Saved(file, m)
    /\ writes' = writes + 1
    /\ trace' = Append(trace, "write")
    /\ pc' = "saved"
    /\ UNCHANGED << doc, run, status_code, all_counties, wa_features, e, uncaught,
                    counties_gdf, m, fileAtStart, console, retval, fetches >>

\* print(f"Interactive map has been saved as '{output_file}'"); return output_file
PrintAndReturn ==
    /\ pc = "saved"
    /\ console' = Append(console, ConfirmLine)
    /\ retval' = output_file
    /\ trace' = trace \o <<"print", "return">>
    /\ pc' = "done"
    /\ UNCHANGED << doc, run, status_code, all_counties, wa_features, e, uncaught,
                    counties_gdf, m, file, fileAtStart, fetches, writes >>

\* if __name__ == "__main__": create_wa_minimum_wage_map()
\* The script is invoked again, in a new process, against the same document
\* and the same working directory.
Rerun ==
    /\ pc \in Terminal
    /\ run < MaxRuns
    /\ run' = run + 1
    /\ fileAtStart' = file
    /\ pc' = "start"
    /\ status_code' = 0
    /\ all_counties' = <<>>
    /\ wa_features' = <<>>
    /\ e' = NoExc
    /\ uncaught' = NoExc
    /\ counties_gdf' = <<>>
    /\ m' = NoMap
    /\ console' = <<>>
    /\ retval' = ""
    /\ fetches' = 0
    /\ writes' = 0
    /\ trace' = <<>>
    /\ UNCHANGED << doc, file >>

Next ==
    \/ Fetch
    \/ Response
    \/ Filter
    \/ Enrich
    \/ ToGeoDataFrame
    \/ ExceptHandler
    \/ WageJoin
    \/ Render
    \/ Save
    \/ PrintAndReturn
    \/ Rerun

Spec == Init /\ [][Next]_vars

\* Every step of the script is taken once it can be: one thread, no waiting
\* but for the transport, which answers or raises.
FairSpec == Spec /\ WF_vars(Next)

(***************************************************************************)
(* style_function on its own: a frame of one row with any rate between     *)
(* RateLo and RateHi and any name, rendered.                               *)
(***************************************************************************)
StyleNames == {"King", "Whatcom", "Adams"}

StyleRow(name, rate) ==
    [STATE |-> "53", COUNTY |-> "001", id |-> 1, NAME |-> name,
     NAMELSAD |-> name \o CountySuffix,
     min_wage_numeric |-> rate,
     min_wage_cad |-> astype_str(rate) \o WageSuffix]

InitStyle ==
    /\ doc = [valid |-> TRUE,
              features |-> << [STATE |-> "53", COUNTY |-> "001", NAME |-> "Adams", id |-> 1] >>]
    /\ run = 1
    /\ file = NoFile
    /\ fileAtStart = NoFile
    /\ pc = "joined"
    /\ status_code = OkStatus
    /\ all_counties = doc.features
    /\ wa_features = enrich_loop(doc.features)
    /\ e = NoExc
    /\ uncaught = NoExc
    /\ \E name \in StyleNames : \E rate \in RateLo..RateHi :
          counties_gdf = << StyleRow(name, rate) >>
    /\ m = NoMap
    /\ console = <<>>
    /\ retval = ""
    /\ fetches = 1
    /\ writes = 0
    /\ trace = <<"fetch", "filter", "enrich", "join">>

NextStyle == Render

SpecStyle == InitStyle /\ [][NextStyle]_vars

(***************************************************************************)
(* Vocabulary of the properties.                                           *)
(***************************************************************************)
Did(step) == \E i \in DOMAIN trace : trace[i] = step

Printed(line) == \E i \in DOMAIN console : console[i] = line

\* The loader has returned a frame.
Loaded == pc \in {"loaded", "joined", "rendered", "saved", "done", "crashed"}

\* The enrichment loop has run to its end.
Enriched == pc = "enriched" \/ Loaded

\* The wage join has been made.
Joined == pc \in {"joined", "rendered", "saved", "done"}

\* The map has been composed.
Rendered == pc \in {"rendered", "saved", "done"}

\* The order of the steps of a run that succeeds.
StepOrder == <<"fetch", "filter", "enrich", "join", "write", "print", "return">>

IsPrefix(s, t) == Len(s) <= Len(t) /\ \A i \in 1..Len(s) : s[i] = t[i]

\* The positions, in the document, of the features of the target state.
TargetPositions == { i \in 1..Len(doc.features) : doc.features[i].STATE = "53" }

(***************************************************************************)
(* The wage join.                                                          *)
(***************************************************************************)
\* The text of the three rates, as the display string shows them.
RateText(rate) ==
    IF rate = 3009 THEN "30.09" ELSE IF rate = 2654 THEN "26.54" ELSE "23.7"

\* C1: after the wage join every row carries exactly one of the three rates:
\* 30.09 iff its NAME is 'King', 26.54 iff its NAME is 'Whatcom', 23.70
\* otherwise; its display string is the text of that rate followed by
\* ' Canadian Dollars an hour', with ' starting May 1st' appended iff the
\* NAME is 'Whatcom'.
C1_WageJoin ==
    Joined =>
        \A i \in DOMAIN counties_gdf :
            LET row == counties_gdf[i]
                rate == row.min_wage_numeric
            IN  /\ rate \in {2370, 3009, 2654}
                /\ (rate = 3009) <=> (row.NAME = "King")
                /\ (rate = 2654) <=> (row.NAME = "Whatcom")
                /\ (rate = 2370) <=> (row.NAME \notin {"King", "Whatcom"})
                /\ row.min_wage_cad =
                      RateText(rate) \o " Canadian Dollars an hour" \o
                      (IF row.NAME = "Whatcom" THEN " starting May 1st" ELSE "")

\* A frame with one King row, one Whatcom row and one other row, joined.
C1_Witness ==
    /\ pc = "joined"
    /\ Len(counties_gdf) = 3
    /\ \E i, j, k \in DOMAIN counties_gdf :
          /\ counties_gdf[i].NAME = "King" /\ counties_gdf[i].min_wage_numeric = 3009
          /\ counties_gdf[j].NAME = "Whatcom" /\ counties_gdf[j].min_wage_numeric = 2654
          /\ counties_gdf[k].NAME = "Adams" /\ counties_gdf[k].min_wage_numeric = 2370
          /\ counties_gdf[k].min_wage_cad = "23.7 Canadian Dollars an hour"

(***************************************************************************)
(* The loader's filter.                                                    *)
(***************************************************************************)
\* C2: on a 200 response the loader returns exactly the features of the
\* document whose STATE is '53': each of them once, no other, in the
\* document's order.
C2_FilterExact ==
    Loaded =>
        /\ status_code = 200
        /\ Len(counties_gdf) = Cardinality(TargetPositions)
        /\ \A k \in DOMAIN counties_gdf :
              /\ counties_gdf[k].id \in TargetPositions
              /\ counties_gdf[k].STATE = "53"
              /\ counties_gdf[k].COUNTY = doc.features[counties_gdf[k].id].COUNTY
        /\ \A k, l \in DOMAIN counties_gdf :
              k < l => counties_gdf[k].id < counties_gdf[l].id

\* A document of three features whose second is of another state: the
\* first and the third are returned, in that order.
C2_Witness ==
    /\ pc = "loaded"
    /\ Len(doc.features) = 3
    /\ doc.features[2].STATE = "48"
    /\ Len(counties_gdf) = 2
    /\ counties_gdf[1].id = 1
    /\ counties_gdf[2].id = 3
    /\ counties_gdf[1].COUNTY # counties_gdf[2].COUNTY

(***************************************************************************)
(* The style function.                                                     *)
(***************************************************************************)
\* C3: the style is decided by the rate alone, by equality: 30.09 gives
\* rich gold, 26.54 medium gold, any other rate (between, below or above
\* the known ones) light gold; border colour, weight and opacity are the
\* same in all three.
C3_StyleByEquality ==
    Rendered =>
        \A i \in DOMAIN m.layer :
            LET wage == m.layer[i].properties.min_wage_numeric
                style == m.layer[i].style
            IN  /\ style.fillColor = (IF wage = 3009 THEN "#ffd700"
                                      ELSE IF wage = 2654 THEN "#f5c855"
                                      ELSE "#ffeeba")
                /\ style.color = "#000000"
                /\ style.weight = 1
                /\ style.fillOpacity = "0.7"

\* A row named King whose rate lies between the two known overrides is
\* rendered light gold.
C3_Witness ==
    /\ pc = "rendered"
    /\ Len(m.layer) = 1
    /\ m.layer[1].properties.NAME = "King"
    /\ m.layer[1].properties.min_wage_numeric > 2654
    /\ m.layer[1].properties.min_wage_numeric < 3009
    /\ m.layer[1].style.fillColor = "#ffeeba"

(***************************************************************************)
(* Enrichment.                                                             *)
(***************************************************************************)
\* C6: after enrichment, every selected feature's NAMELSAD is its NAME
\* followed by ' County', and its NAME is the name table's entry for
\* STATE + COUNTY.
C6_LongName ==
    Enriched =>
        \A i \in DOMAIN wa_features :
            LET f == wa_features[i]
                code == f.STATE \o f.COUNTY
            IN  /\ f.NAMELSAD = f.NAME \o " County"
                /\ code \in DOMAIN county_names => f.NAME = county_names[code]
                /\ code = "53033" => f.NAMELSAD = "King County"
                /\ code = "53077" => f.NAMELSAD = "Yakima County"

\* The feature 53077, which the document names King, is enriched to Yakima.
C6_Witness ==
    /\ pc = "enriched"
    /\ \E i \in DOMAIN wa_features :
          /\ wa_features[i].COUNTY = "077"
          /\ doc.features[wa_features[i].id].NAME = "King"
          /\ wa_features[i].NAME = "Yakima"
          /\ wa_features[i].NAMELSAD = "Yakima County"

(***************************************************************************)
(* Enrichment, wage join and styling composed.                             *)
(***************************************************************************)
\* C10: in the rendered map the fill colour of a record follows from its
\* region code alone and agrees with its tooltip: 53033 is named King, rich
\* gold, with the 30.09 text; 53073 is named Whatcom, medium gold, with the
\* 26.54 text and the note; any other code, an unmapped one (named Unknown)
\* included, is light gold with the default text.
C10_CodeDecidesTier ==
    Rendered =>
        \A i \in DOMAIN m.layer :
            LET f == m.layer[i]
                code == f.properties.STATE \o f.properties.COUNTY
                tier == << f.properties.NAME, f.properties.min_wage_numeric,
                           f.style.fillColor, f.tooltip[2] >>
            IN  /\ f.tooltip[1] = f.properties.NAME
                /\ code = "53033" =>
                      tier = << "King", 3009, "#ffd700", "30.09 Canadian Dollars an hour" >>
                /\ code = "53073" =>
                      tier = << "Whatcom", 2654, "#f5c855",
                                "26.54 Canadian Dollars an hour starting May 1st" >>
                /\ code \notin {"53033", "53073"} =>
                      /\ f.properties.NAME \notin {"King", "Whatcom"}
                      /\ << tier[2], tier[3], tier[4] >> =
                            << 2370, "#ffeeba", "23.7 Canadian Dollars an hour" >>
                /\ code \notin DOMAIN county_names => f.properties.NAME = "Unknown"

\* A saved map of King, Whatcom and the unmapped 53999 (which the document
\* names Whatcom), each in its own tier.
C10_Witness ==
    /\ pc = "done"
    /\ file.content = m
    /\ Len(m.layer) = 3
    /\ \E i, j, k \in DOMAIN m.layer :
          /\ m.layer[i].properties.COUNTY = "033" /\ m.layer[i].style.fillColor = "#ffd700"
          /\ m.layer[j].properties.COUNTY = "073" /\ m.layer[j].style.fillColor = "#f5c855"
          /\ m.layer[k].properties.COUNTY = "999" /\ m.layer[k].style.fillColor = "#ffeeba"
          /\ m.layer[k].properties.NAME = "Unknown"

(***************************************************************************)
(* Unmapped region codes.                                                  *)
(***************************************************************************)
Unmapped(f) == (f.STATE \o f.COUNTY) \notin DOMAIN county_names

\* C5, as the specification states it: for a region code absent from the
\* name table both NAME and NAMELSAD are the sentinel 'Unknown'.
C5_BothNamesSentinel ==
    Enriched =>
        \A i \in DOMAIN wa_features :
            Unmapped(wa_features[i]) =>
                /\ wa_features[i].NAME = "Unknown"
                /\ wa_features[i].NAMELSAD = "Unknown"

\* C5, amended: for a region code absent from the name table NAME is the
\* sentinel 'Unknown' and NAMELSAD is the sentinel followed by ' County';
\* the enrichment loop does not fail on such a code: when it raises, it is
\* on a feature with no COUNTY key, and the unmapped features before that
\* one have their names already.
C5_SentinelThenSuffix ==
    /\ Enriched =>
          \A i \in DOMAIN wa_features :
              Unmapped(wa_features[i]) =>
                  /\ wa_features[i].NAME = "Unknown"
                  /\ wa_features[i].NAMELSAD = "Unknown County"
    /\ (Did("enrich") /\ pc = "raised" /\ e.type = "KeyError") =>
          \E j \in DOMAIN wa_features :
              /\ "COUNTY" \notin DOMAIN wa_features[j]
              /\ \A i \in 1..(j - 1) :
                    /\ "COUNTY" \in DOMAIN wa_features[i]
                    /\ Unmapped(wa_features[i]) =>
                          /\ wa_features[i].NAME = "Unknown"
                          /\ wa_features[i].NAMELSAD = "Unknown County"
    /\ (Did("enrich") /\ \A i \in DOMAIN wa_features : "COUNTY" \in DOMAIN wa_features[i]) =>
          e.type # "KeyError"

\* The unmapped code 53999 has been enriched, and the loop went on to the
\* feature after it.
C5_Witness ==
    /\ pc = "enriched"
    /\ Len(wa_features) >= 2
    /\ wa_features[1].COUNTY = "999"
    /\ wa_features[1].NAME = "Unknown"
    /\ wa_features[1].NAMELSAD = "Unknown County"
    /\ wa_features[2].NAMELSAD = "King County"

(***************************************************************************)
(* Failures of the loader.                                                 *)
(***************************************************************************)
\* C4: when the loader fails, by a non-200 status or by any other exception,
\* the failure is printed, the exception leaves create_wa_minimum_wage_map
\* as it was raised, no frame is returned, no wage join is made and the
\* output file is as the run found it.
C4_LoaderFailureAborts ==
    pc = "failed" =>
        /\ e # NoExc
        /\ Printed("Error getting county data: " \o e.args[1])
        /\ uncaught = e
        /\ counties_gdf = <<>>
        /\ m = NoMap
        /\ ~Did("join")
        /\ ~Did("write")
        /\ writes = 0
        /\ file = fileAtStart
        /\ retval = ""

\* A second run that fails on a 404 and leaves the first run's file alone.
C4_Witness ==
    /\ pc = "failed"
    /\ run = 2
    /\ status_code = 404
    /\ file.exists
    /\ file = fileAtStart

\* C7, as the specification states it: on a non-200 status the loader's
\* exception carries the response status; any other exception surfaces with
\* its cause.
C7_ErrorCarriesStatus ==
    pc = "failed" =>
        IF status_code \notin {0, 200}
        THEN \E i \in DOMAIN uncaught.args : uncaught.args[i] = ToString(status_code)
        ELSE uncaught = e

\* C7, amended: on a non-200 status the loader prints the status and fails
\* with a plain Exception whose only argument is the fixed text 'Failed to
\* fetch county data from API' (the status is on the console, not in the
\* exception); any other exception of the fetch or the parse is raised
\* again as it is.
C7_StatusOnlyPrinted ==
    pc = "failed" =>
        IF status_code \notin {0, 200}
        THEN /\ uncaught = [type |-> "Exception",
                            args |-> <<"Failed to fetch county data from API">>]
             /\ Printed("API request failed with status code: " \o ToString(status_code))
             /\ \A i \in DOMAIN uncaught.args : uncaught.args[i] # ToString(status_code)
        ELSE /\ uncaught = e
             /\ e.type \in {"ConnectionError", "JSONDecodeError", "KeyError", "ValueError"}

\* The loader has failed on a 503.
C7_Witness ==
    /\ pc = "failed"
    /\ status_code = 503
    /\ uncaught.type = "Exception"
    /\ console = << "API request failed with status code: 503",
                    "Error getting county data: Failed to fetch county data from API" >>

(***************************************************************************)
(* Two runs against the same document.                                     *)
(***************************************************************************)
\* This run has written the file, and so had the run before it.
WrittenTwice == run >= 2 /\ pc = "done" /\ fileAtStart.exists

\* C8, as the specification states it: the second run's file is the first
\* run's file, byte for byte.
C8_ByteIdentical ==
    WrittenTwice => file = fileAtStart

\* C8, amended: the second run's file has the records of the first run's
\* file, in the same order, with the same properties, styles and tooltips,
\* and the same legend and title; the two differ at most in the element
\* identifiers the map library draws for each run.
C8_SameButForIds ==
    WrittenTwice =>
        /\ file.content.layer = fileAtStart.content.layer
        /\ file.content.legend = fileAtStart.content.legend
        /\ file.content.title = fileAtStart.content.title
        /\ file.content.layer = geojson_layer(counties_gdf)

\* Two runs have written a map of two records.
C8_Witness ==
    /\ WrittenTwice
    /\ Len(file.content.layer) = 2
    /\ Len(fileAtStart.content.layer) = 2

(***************************************************************************)
(* The course of a run.                                                    *)
(***************************************************************************)
C9_Steps ==
    /\ fetches <= 1
    /\ writes <= 1
    /\ IsPrefix(trace, StepOrder)
    /\ Did("fetch") <=> (fetches = 1)
    /\ Did("write") <=> (writes = 1)
    /\ Did("filter") => status_code = 200
    /\ pc = "done" =>
          /\ trace = StepOrder
          /\ retval = "washington_minimum_wage_cad_map.html"
          /\ file.exists
    /\ pc \in Terminal =>
          /\ fetches = 1
          /\ Printed(ConfirmLine) <=> (writes = 1)
          /\ (pc = "failed") <=>
                (e # NoExc /\ Printed("Error getting county data: " \o e.args[1]))
          /\ (pc = "failed") <=>
                (\E i \in DOMAIN console : console[i] # ConfirmLine)

\* C9: every run ends; it fetches exactly once; the steps come in the order
\* fetch, filter, enrich, wage join, one write of the fixed file, the
\* confirmation, the return of the file name; the confirmation is printed
\* iff the file was written, a failure line iff the run ends in a failure
\* of the loader.
C9_RunOnceInOrder ==
    /\ []C9_Steps
    /\ (pc = "start") ~> (pc \in Terminal)

\* A run that has gone through all its steps.
C9_Witness ==
    /\ pc = "done"
    /\ trace = StepOrder
    /\ fetches = 1
    /\ writes = 1
    /\ console = << "Interactive map has been saved as 'washington_minimum_wage_cad_map.html'" >>

====
